---- MODULE Spec2Model ----
(***************************************************************************)
(* Model of the client-side Audio Session Controller that src/s.py serves  *)
(* (the script block of html_content), as an event-driven state machine.   *)
(* Every handler runs to completion; the two asynchronous boundaries       *)
(* (getUserMedia, FileReader + decodeAudioData) are split into the part    *)
(* that runs at the event and the continuation that runs at completion.    *)
(***************************************************************************)
EXTENDS Integers, Sequences, FiniteSets, TLC

\* ---------------------------------------------------------------- bounds
\* Number of clicks on "Start Microphone" explored.
MaxStarts == 3
\* Number of audio-typed drops explored.
MaxDrops == 3
\* The same two numbers for a session that interleaves the microphone
\* with file intake and playback.
MaxSessionStarts == 2
MaxSessionDrops == 2
\* Number of navigations to the served URL made by hand.
MaxGets == 5

\* ------------------------------------------------------------- constants
\* JavaScript undefined / null for the handles the script keeps.
Undefined == 0
Null == "null"

\* Status texts written to statusMessage.textContent.
MsgNone == ""
MsgLoaded == "Audio file loaded."
MsgDecodeError == "Error decoding audio file."
MsgInvalidDrop == "Please drop a valid audio file."
MsgMicStarted == "Microphone started."
MsgMicError == "Error accessing microphone."
MsgMicStopped == "Microphone stopped."
MsgDelayOn == "Delay enabled."
MsgDelayOff == "Delay disabled."
MsgPlaying == "Playing dropped audio."

\* MIME types, as the character sequences file.type holds.
TypeWav == <<"a", "u", "d", "i", "o", "/", "w", "a", "v">>
TypeMpeg == <<"a", "u", "d", "i", "o", "/", "m", "p", "e", "g">>
TypePng == <<"i", "m", "a", "g", "e", "/", "p", "n", "g">>
TypeUnknown == <<>>
AudioPrefix == <<"a", "u", "d", "i", "o", "/">>

\* The files a user may drop: content names the samples the file decodes
\* to, decodable says whether decodeAudioData accepts its bytes.
FileA == [type |-> TypeWav, content |-> "A", decodable |-> TRUE]
FileB == [type |-> TypeMpeg, content |-> "B", decodable |-> TRUE]
FileCorrupt == [type |-> TypeWav, content |-> "X", decodable |-> FALSE]
FileImage == [type |-> TypePng, content |-> "P", decodable |-> FALSE]
FileNoType == [type |-> TypeUnknown, content |-> "U", decodable |-> FALSE]
Files == {FileA, FileB, FileCorrupt, FileImage, FileNoType}

\* e.dataTransfer.files of a drop event: no file, one file, or several.
FileLists == {<<>>} \cup {<<f>> : f \in Files}
               \cup {<<FileImage, FileA>>, <<FileB, FileImage>>}

\* What a navigation to the served URL gets back: nothing yet, the
\* document index() renders, or a refused connection.
NoResponse == "none"
Document == "html_content"
Refused == "refused"

\* On-screen sizes the canvas can take.
Sizes == {1, 2}

\* Nodes of the audio graph. A capture source, delay node and analyser
\* node are created per successful start and carry that start's number.
Destination == <<"destination", 0>>
Source(i) == <<"source", i>>
Delay(i) == <<"delay", i>>
Analyser(i) == <<"analyser", i>>

VARIABLES
    audioContext,        \* Undefined, or the number of the AudioContext in use
    contextsCreated,     \* how many AudioContext objects were constructed
    micStream,           \* Undefined, or the stream micStream refers to
    micSource,           \* Undefined, or the MediaStreamSource node's number
    delayNode,           \* Undefined, or the DelayNode's number
    analyserNode,        \* Undefined, or the AnalyserNode's number
    droppedAudioBuffer,  \* Null, or the content of the decoded buffer
    droppedAudioSource,  \* Undefined, or the last AudioBufferSourceNode
    isDelayEnabled,      \* routing mode
    animationId,         \* Undefined, or the last requestAnimationFrame id
    startMicBtnDisabled,
    stopMicBtnDisabled,
    toggleDelayBtnDisabled,
    playAudioBtnDisabled,
    statusMessage,       \* statusMessage.textContent
    dragover,            \* dropZone carries the 'dragover' class
    canvasSize,          \* canvas.width / canvas.height
    clientSize,          \* canvas.clientWidth / canvas.clientHeight
    fullscreen,          \* requestFullscreen was called
    \* ---- the browser's side
    startCalls,          \* startMicrophone invocations so far
    pendingStarts,       \* getUserMedia promises not yet settled
    streamsCreated,      \* capture streams handed out by getUserMedia
    liveStreams,         \* streams whose tracks have not been stopped
    connections,         \* edges <<from, to>> of the audio graph
    pendingFrames,       \* frame callbacks requested and not cancelled/run
    pendingReads,        \* FileReader reads in flight: [id, file]
    pendingDecodes,      \* decodeAudioData calls in flight: [id, file]
    dropLog,             \* the audio-typed files dropped so far, in order
    playing,             \* buffer sources started and not stopped or ended
    sourceBuffer,        \* buffer content of each buffer source created
    \* ---- the page server process (app.py's __main__)
    serverState,         \* app.run: "starting", "serving" or "failed"
    browserTimer,        \* the Timer: "scheduled", "opened" or "failed"
    getsSent,            \* navigations to http://localhost:5000/ so far
    pendingGets,         \* GET / requests received and not yet answered
    lastResponse         \* what the last navigation got back

micVars == <<micStream, micSource, delayNode, analyserNode, isDelayEnabled,
             animationId, startCalls, pendingStarts, streamsCreated,
             liveStreams, connections, pendingFrames, fullscreen>>
btnVars == <<startMicBtnDisabled, stopMicBtnDisabled, toggleDelayBtnDisabled,
             playAudioBtnDisabled>>
ctxVars == <<audioContext, contextsCreated>>
dropVars == <<droppedAudioBuffer, pendingReads, pendingDecodes, dropLog>>
playVars == <<droppedAudioSource, playing, sourceBuffer>>
viewVars == <<dragover, canvasSize, clientSize>>
srvVars == <<serverState, browserTimer, getsSent, pendingGets, lastResponse>>
vars == <<micVars, btnVars, ctxVars, dropVars, playVars, viewVars,
          statusMessage, srvVars>>

\* ---------------------------------------------------------------- helpers
\* String.prototype.startsWith
StartsWith(s, prefix) ==
    /\ Len(s) >= Len(prefix)
    /\ SubSeq(s, 1, Len(prefix)) = prefix

\* A handle the browser has not handed out among those the script or the
\* browser still holds. Handles are only ever compared for equality.
FreshId(held) == CHOOSE n \in 1..(Cardinality(held) + 1) : n \notin held

\* The audio context constructed without the test for an existing one.
EnsureAudioContextAlwaysNew ==
    /\ audioContext' = contextsCreated + 1
    /\ contextsCreated' = contextsCreated + 1

\* if (!audioContext) audioContext = new AudioContext()
EnsureAudioContext ==
    IF audioContext = Undefined
    THEN /\ audioContext' = contextsCreated + 1
         /\ contextsCreated' = contextsCreated + 1
    ELSE UNCHANGED ctxVars

\* node.connect(target): the edge is added; connecting twice is one edge.
Connect(graph, from, to) == graph \cup {<<from, to>>}

\* node.disconnect(): every outgoing edge of the node is removed.
Disconnect(graph, from) == {e \in graph : e[1] # from}

\* The delayed route without the delay node's connection to the output.
RouteDelayedNoOutput(graph, src, dly) ==
    Connect(graph, Source(src), Delay(dly))

\* micSource.connect(delayNode).connect(audioContext.destination)
RouteDelayed(graph, src, dly) ==
    Connect(Connect(graph, Source(src), Delay(dly)), Delay(dly), Destination)

\* micSource.connect(audioContext.destination)
RouteDirect(graph, src) == Connect(graph, Source(src), Destination)

Init ==
    /\ audioContext = Undefined
    /\ contextsCreated = 0
    /\ micStream = Undefined
    /\ micSource = Undefined
    /\ delayNode = Undefined
    /\ analyserNode = Undefined
    /\ droppedAudioBuffer = Null
    /\ droppedAudioSource = Undefined
    /\ isDelayEnabled = FALSE
    /\ animationId = Undefined
    /\ startMicBtnDisabled = FALSE
    /\ stopMicBtnDisabled = TRUE
    /\ toggleDelayBtnDisabled = TRUE
    /\ playAudioBtnDisabled = TRUE
    /\ statusMessage = MsgNone
    /\ dragover = FALSE
    /\ clientSize = 1
    /\ canvasSize = clientSize
    /\ fullscreen = FALSE
    /\ startCalls = 0
    /\ pendingStarts = 0
    /\ streamsCreated = 0
    /\ liveStreams = {}
    /\ connections = {}
    /\ pendingFrames = {}
    /\ pendingReads = {}
    /\ pendingDecodes = {}
    /\ dropLog = <<>>
    /\ playing = {}
    /\ sourceBuffer = <<>>
    /\ serverState = "starting"
    /\ browserTimer = "scheduled"
    /\ getsSent = 0
    /\ pendingGets = 0
    /\ lastResponse = NoResponse

\* --------------------------------------------------- drag & drop handlers
\* The type test left out: every dropped file is read and decoded.
AcceptAnyType(file) == TRUE

\* file.type.startsWith('audio/')
TypeIsAudio(file) == StartsWith(file.type, AudioPrefix)

\* dropZone 'dragover' listener
DragOver ==
    /\ dragover' = TRUE
    /\ UNCHANGED <<canvasSize, clientSize>>
    /\ UNCHANGED <<micVars, btnVars, ctxVars, dropVars, playVars, statusMessage>>
    /\ UNCHANGED srvVars

\* dropZone 'dragleave' listener
DragLeave ==
    /\ dragover' = FALSE
    /\ UNCHANGED <<canvasSize, clientSize>>
    /\ UNCHANGED <<micVars, btnVars, ctxVars, dropVars, playVars, statusMessage>>
    /\ UNCHANGED srvVars

\* dropZone 'drop' listener, up to reader.readAsArrayBuffer(file)
Drop(files) ==
    /\ dragover' = FALSE
    /\ UNCHANGED <<canvasSize, clientSize>>
    /\ UNCHANGED <<micVars, btnVars, ctxVars, playVars, droppedAudioBuffer,
                   pendingDecodes>>
    /\ IF Len(files) > 0
       THEN LET file == files[1] IN
            IF TypeIsAudio(file)
            THEN /\ Len(dropLog) < MaxDrops
                 /\ pendingReads' = pendingReads
                        \cup {[id |-> Len(dropLog) + 1, file |-> file]}
                 /\ dropLog' = Append(dropLog, file)
                 /\ UNCHANGED statusMessage
            ELSE /\ statusMessage' = MsgInvalidDrop
                 /\ UNCHANGED <<pendingReads, dropLog>>
       ELSE UNCHANGED <<pendingReads, dropLog, statusMessage>>
    /\ UNCHANGED srvVars

\* reader.onload: the read has completed, decodeAudioData is called
ReaderOnload(r) ==
    /\ r \in pendingReads
    /\ EnsureAudioContext
    /\ pendingReads' = pendingReads \ {r}
    /\ pendingDecodes' = pendingDecodes \cup {r}
    /\ UNCHANGED <<droppedAudioBuffer, dropLog>>
    /\ UNCHANGED <<micVars, btnVars, playVars, viewVars, statusMessage>>
    /\ UNCHANGED srvVars

\* decodeAudioData success callback
DecodeSuccess(r) ==
    /\ r \in pendingDecodes
    /\ r.file.decodable
    /\ pendingDecodes' = pendingDecodes \ {r}
    /\ droppedAudioBuffer' = r.file.content
    /\ statusMessage' = MsgLoaded
    /\ playAudioBtnDisabled' = FALSE
    /\ UNCHANGED <<startMicBtnDisabled, stopMicBtnDisabled,
                   toggleDelayBtnDisabled>>
    /\ UNCHANGED <<pendingReads, dropLog>>
    /\ UNCHANGED <<micVars, ctxVars, playVars, viewVars>>
    /\ UNCHANGED srvVars

\* The error callback also discarding the buffer loaded before.
DecodeErrorClearsBuffer(r) ==
    /\ r \in pendingDecodes
    /\ ~r.file.decodable
    /\ pendingDecodes' = pendingDecodes \ {r}
    /\ statusMessage' = MsgDecodeError
    /\ droppedAudioBuffer' = Null
    /\ UNCHANGED <<pendingReads, dropLog>>
    /\ UNCHANGED <<micVars, btnVars, ctxVars, playVars, viewVars>>
    /\ UNCHANGED srvVars

\* decodeAudioData error callback
DecodeError(r) ==
    /\ r \in pendingDecodes
    /\ ~r.file.decodable
    /\ pendingDecodes' = pendingDecodes \ {r}
    /\ statusMessage' = MsgDecodeError
    /\ UNCHANGED <<droppedAudioBuffer, pendingReads, dropLog>>
    /\ UNCHANGED <<micVars, btnVars, ctxVars, playVars, viewVars>>
    /\ UNCHANGED srvVars

\* ------------------------------------------------- waveform visualization
\* requestAnimationFrame(drawWaveform): a new callback is pending and its
\* id is returned; others are the callbacks still pending.
RequestFrameId(others) ==
    FreshId((others \cup {animationId}) \ {Undefined})

\* drawWaveform(), given the callbacks pending when it is entered: it
\* re-schedules itself and keeps the new id, then draws (drawing reads
\* analyserNode and the canvas and changes none of the state kept here).
drawWaveform(others) ==
    /\ animationId' = RequestFrameId(others)
    /\ pendingFrames' = others \cup {RequestFrameId(others)}

\* The browser runs the pending frame callback f.
FrameCallback(f) ==
    /\ f \in pendingFrames
    /\ drawWaveform(pendingFrames \ {f})
    /\ UNCHANGED <<micStream, micSource, delayNode, analyserNode,
                   isDelayEnabled, startCalls, pendingStarts, streamsCreated,
                   liveStreams, connections, fullscreen>>
    /\ UNCHANGED <<btnVars, ctxVars, dropVars, playVars, viewVars,
                   statusMessage>>
    /\ UNCHANGED srvVars

\* -------------------------------------------------------------- microphone
\* startMicrophone(), up to the await of getUserMedia
startMicrophone ==
    /\ EnsureAudioContext
    /\ startCalls' = startCalls + 1
    /\ pendingStarts' = pendingStarts + 1
    /\ UNCHANGED <<micStream, micSource, delayNode, analyserNode,
                   isDelayEnabled, animationId, streamsCreated, liveStreams,
                   connections, pendingFrames, fullscreen>>
    /\ UNCHANGED <<btnVars, dropVars, playVars, viewVars, statusMessage>>
    /\ UNCHANGED srvVars

\* startMicrophone(), resumed with the stream getUserMedia resolved to
startMicrophoneResolved ==
    LET stream == streamsCreated + 1
        wired == Connect(connections, Source(stream), Analyser(stream))
    IN  /\ pendingStarts > 0
        /\ pendingStarts' = pendingStarts - 1
        /\ streamsCreated' = stream
        /\ liveStreams' = liveStreams \cup {stream}
        /\ micStream' = stream
        /\ micSource' = stream
        /\ delayNode' = stream
        /\ analyserNode' = stream
        /\ connections' = IF isDelayEnabled
                          THEN RouteDelayed(wired, stream, stream)
                          ELSE RouteDirect(wired, stream)
        /\ stopMicBtnDisabled' = FALSE
        /\ toggleDelayBtnDisabled' = FALSE
        /\ statusMessage' = MsgMicStarted
        /\ drawWaveform(pendingFrames)
        /\ fullscreen' = TRUE
        /\ UNCHANGED <<startMicBtnDisabled, playAudioBtnDisabled>>
        /\ UNCHANGED <<isDelayEnabled, startCalls>>
        /\ UNCHANGED <<ctxVars, dropVars, playVars, viewVars>>
        /\ UNCHANGED srvVars

\* The controls enabled on the failure path as well (as if in a finally).
startMicrophoneRejectedEnables ==
    /\ pendingStarts > 0
    /\ pendingStarts' = pendingStarts - 1
    /\ statusMessage' = MsgMicError
    /\ stopMicBtnDisabled' = FALSE
    /\ toggleDelayBtnDisabled' = FALSE
    /\ UNCHANGED <<startMicBtnDisabled, playAudioBtnDisabled>>
    /\ UNCHANGED <<micStream, micSource, delayNode, analyserNode,
                   isDelayEnabled, animationId, startCalls, streamsCreated,
                   liveStreams, connections, pendingFrames, fullscreen>>
    /\ UNCHANGED <<ctxVars, dropVars, playVars, viewVars>>
    /\ UNCHANGED srvVars

\* startMicrophone(), resumed in its catch block: getUserMedia rejected
startMicrophoneRejected ==
    /\ pendingStarts > 0
    /\ pendingStarts' = pendingStarts - 1
    /\ statusMessage' = MsgMicError
    /\ UNCHANGED <<micStream, micSource, delayNode, analyserNode,
                   isDelayEnabled, animationId, startCalls, streamsCreated,
                   liveStreams, connections, pendingFrames, fullscreen>>
    /\ UNCHANGED <<btnVars, ctxVars, dropVars, playVars, viewVars>>
    /\ UNCHANGED srvVars

\* stopMicrophone() also resetting the routing mode.
stopMicrophoneResetsDelay ==
    /\ liveStreams' = IF micStream # Undefined
                      THEN liveStreams \ {micStream}
                      ELSE liveStreams
    /\ pendingFrames' = IF animationId # Undefined
                        THEN pendingFrames \ {animationId}
                        ELSE pendingFrames
    /\ isDelayEnabled' = FALSE
    /\ stopMicBtnDisabled' = TRUE
    /\ toggleDelayBtnDisabled' = TRUE
    /\ statusMessage' = MsgMicStopped
    /\ UNCHANGED <<startMicBtnDisabled, playAudioBtnDisabled>>
    /\ UNCHANGED <<micStream, micSource, delayNode, analyserNode,
                   animationId, startCalls, pendingStarts,
                   streamsCreated, connections, fullscreen>>
    /\ UNCHANGED <<ctxVars, dropVars, playVars, viewVars>>
    /\ UNCHANGED srvVars

\* stopMicrophone()
stopMicrophone ==
    /\ liveStreams' = IF micStream # Undefined
                      THEN liveStreams \ {micStream}
                      ELSE liveStreams
    /\ pendingFrames' = IF animationId # Undefined
                        THEN pendingFrames \ {animationId}
                        ELSE pendingFrames
    /\ stopMicBtnDisabled' = TRUE
    /\ toggleDelayBtnDisabled' = TRUE
    /\ statusMessage' = MsgMicStopped
    /\ UNCHANGED <<startMicBtnDisabled, playAudioBtnDisabled>>
    /\ UNCHANGED <<micStream, micSource, delayNode, analyserNode,
                   isDelayEnabled, animationId, startCalls, pendingStarts,
                   streamsCreated, connections, fullscreen>>
    /\ UNCHANGED <<ctxVars, dropVars, playVars, viewVars>>
    /\ UNCHANGED srvVars

\* toggleDelay() also cancelling the pending frame callback.
toggleDelayCancelsLoop ==
    /\ isDelayEnabled' = ~isDelayEnabled
    /\ pendingFrames' = pendingFrames \ {animationId}
    /\ IF micSource # Undefined
       THEN IF isDelayEnabled'
            THEN /\ connections' = RouteDelayed(
                        Disconnect(connections, Source(micSource)),
                        micSource, delayNode)
                 /\ statusMessage' = MsgDelayOn
            ELSE /\ connections' = RouteDirect(
                        Disconnect(connections, Source(micSource)),
                        micSource)
                 /\ statusMessage' = MsgDelayOff
       ELSE UNCHANGED <<connections, statusMessage>>
    /\ UNCHANGED <<micStream, micSource, delayNode, analyserNode,
                   animationId, startCalls, pendingStarts, streamsCreated,
                   liveStreams, fullscreen>>
    /\ UNCHANGED <<btnVars, ctxVars, dropVars, playVars, viewVars>>
    /\ UNCHANGED srvVars

\* toggleDelay()
toggleDelay ==
    /\ isDelayEnabled' = ~isDelayEnabled
    /\ IF micSource # Undefined
       THEN IF isDelayEnabled'
            THEN /\ connections' = RouteDelayed(
                        Disconnect(connections, Source(micSource)),
                        micSource, delayNode)
                 /\ statusMessage' = MsgDelayOn
            ELSE /\ connections' = RouteDirect(
                        Disconnect(connections, Source(micSource)),
                        micSource)
                 /\ statusMessage' = MsgDelayOff
       ELSE UNCHANGED <<connections, statusMessage>>
    /\ UNCHANGED <<micStream, micSource, delayNode, analyserNode,
                   animationId, startCalls, pendingStarts, streamsCreated,
                   liveStreams, pendingFrames, fullscreen>>
    /\ UNCHANGED <<btnVars, ctxVars, dropVars, playVars, viewVars>>
    /\ UNCHANGED srvVars

\* ------------------------------------------------------ play dropped audio
\* audioContext.createBufferSource()
NewBufferSource == FreshId((playing \cup {droppedAudioSource}) \ {Undefined})

\* playDroppedAudio() without the stop() of the previous instance.
playDroppedAudioNoStop ==
    /\ IF droppedAudioBuffer # Null
       THEN /\ droppedAudioSource' = NewBufferSource
            /\ sourceBuffer' =
                   [i \in DOMAIN sourceBuffer \cup {NewBufferSource} |->
                       IF i = NewBufferSource THEN droppedAudioBuffer
                       ELSE sourceBuffer[i]]
            /\ playing' = playing \cup {NewBufferSource}
            /\ statusMessage' = MsgPlaying
       ELSE UNCHANGED <<playVars, statusMessage>>
    /\ UNCHANGED <<micVars, btnVars, ctxVars, dropVars, viewVars>>
    /\ UNCHANGED srvVars

\* playDroppedAudio() without the test of droppedAudioBuffer.
playDroppedAudioNoGuard ==
    /\ droppedAudioSource' = NewBufferSource
    /\ sourceBuffer' =
           [i \in DOMAIN sourceBuffer \cup {NewBufferSource} |->
               IF i = NewBufferSource THEN droppedAudioBuffer
               ELSE sourceBuffer[i]]
    /\ playing' = (playing \ {droppedAudioSource}) \cup {NewBufferSource}
    /\ statusMessage' = MsgPlaying
    /\ UNCHANGED <<micVars, btnVars, ctxVars, dropVars, viewVars>>
    /\ UNCHANGED srvVars

\* playDroppedAudio()
playDroppedAudio ==
    /\ IF droppedAudioBuffer # Null
       THEN /\ droppedAudioSource' = NewBufferSource
            /\ sourceBuffer' =
                   [i \in DOMAIN sourceBuffer \cup {NewBufferSource} |->
                       IF i = NewBufferSource THEN droppedAudioBuffer
                       ELSE sourceBuffer[i]]
            /\ playing' = (playing \ {droppedAudioSource})
                              \cup {NewBufferSource}
            /\ statusMessage' = MsgPlaying
       ELSE UNCHANGED <<playVars, statusMessage>>
    /\ UNCHANGED <<micVars, btnVars, ctxVars, dropVars, viewVars>>
    /\ UNCHANGED srvVars

\* A started buffer source reaches the end of its buffer.
PlaybackEnded(s) ==
    /\ s \in playing
    /\ playing' = playing \ {s}
    /\ UNCHANGED <<droppedAudioSource, sourceBuffer>>
    /\ UNCHANGED <<micVars, btnVars, ctxVars, dropVars, viewVars,
                   statusMessage>>
    /\ UNCHANGED srvVars

\* ------------------------------------------------------------------ canvas
\* resizeCanvas() also cancelling the pending frame callbacks.
resizeCanvasCancelsFrames(size) ==
    /\ clientSize' = size
    /\ canvasSize' = size
    /\ pendingFrames' = {}
    /\ UNCHANGED dragover
    /\ UNCHANGED <<micStream, micSource, delayNode, analyserNode,
                   isDelayEnabled, animationId, startCalls, pendingStarts,
                   streamsCreated, liveStreams, connections, fullscreen>>
    /\ UNCHANGED <<btnVars, ctxVars, dropVars, playVars, statusMessage>>
    /\ UNCHANGED srvVars

\* window 'resize' listener: resizeCanvas() at the new on-screen size
resizeCanvas(size) ==
    /\ clientSize' = size
    /\ canvasSize' = size
    /\ UNCHANGED dragover
    /\ UNCHANGED <<micVars, btnVars, ctxVars, dropVars, playVars,
                   statusMessage>>
    /\ UNCHANGED srvVars

\* ------------------------------------------------------------ page server
clientVars == <<micVars, btnVars, ctxVars, dropVars, playVars, viewVars,
                statusMessage>>

\* app.run(port=5000) binds the port and serves.
AppRunServes ==
    /\ serverState = "starting"
    /\ serverState' = "serving"
    /\ UNCHANGED <<browserTimer, getsSent, pendingGets, lastResponse>>
    /\ UNCHANGED clientVars

\* app.run(port=5000) cannot bind the port: startup ends.
AppRunBindFails ==
    /\ serverState = "starting"
    /\ serverState' = "failed"
    /\ UNCHANGED <<browserTimer, getsSent, pendingGets, lastResponse>>
    /\ UNCHANGED clientVars

\* A navigation to http://localhost:5000/ reaches the server as a GET /,
\* or is refused when nothing listens on the port.
ReceiveGet ==
    /\ getsSent' = getsSent + 1
    /\ IF serverState = "serving"
       THEN /\ pendingGets' = pendingGets + 1
            /\ UNCHANGED lastResponse
       ELSE /\ lastResponse' = Refused
            /\ UNCHANGED pendingGets

\* The user navigates to the URL by hand.
Navigate ==
    /\ getsSent < MaxGets
    /\ ReceiveGet
    /\ UNCHANGED <<serverState, browserTimer>>
    /\ UNCHANGED clientVars

\* The open step failing and taking the server down with it (as if it
\* ran in the server's thread).
open_browserFailsStopsServer ==
    /\ browserTimer = "scheduled"
    /\ browserTimer' = "failed"
    /\ serverState' = "failed"
    /\ UNCHANGED <<getsSent, pendingGets, lastResponse>>
    /\ UNCHANGED clientVars

\* The timer runs open_browser() and webbrowser.open fails (no browser):
\* the failure stays in the timer's thread.
open_browserFails ==
    /\ browserTimer = "scheduled"
    /\ browserTimer' = "failed"
    /\ UNCHANGED <<serverState, getsSent, pendingGets, lastResponse>>
    /\ UNCHANGED clientVars

\* The timer runs open_browser(): the default browser opens the URL.
open_browser ==
    /\ browserTimer = "scheduled"
    /\ browserTimer' = "opened"
    /\ ReceiveGet
    /\ UNCHANGED serverState
    /\ UNCHANGED clientVars

\* index(): a GET / is answered with the rendered document.
index ==
    /\ serverState = "serving"
    /\ pendingGets > 0
    /\ pendingGets' = pendingGets - 1
    /\ lastResponse' = Document
    /\ UNCHANGED <<serverState, browserTimer, getsSent>>
    /\ UNCHANGED clientVars

\* ------------------------------------------------- button event listeners
\* A disabled button dispatches no click.
StartMicClick ==
    /\ ~startMicBtnDisabled
    /\ startCalls < MaxStarts
    /\ startMicrophone

StopMicClick == ~stopMicBtnDisabled /\ stopMicrophone

ToggleDelayClick == ~toggleDelayBtnDisabled /\ toggleDelay

PlayAudioClick == ~playAudioBtnDisabled /\ playDroppedAudio

WindowResize == \E size \in Sizes : size # clientSize /\ resizeCanvas(size)

Next ==
    \/ DragOver
    \/ DragLeave
    \/ \E files \in FileLists : Drop(files)
    \/ \E r \in pendingReads : ReaderOnload(r)
    \/ \E r \in pendingDecodes : DecodeSuccess(r)
    \/ \E r \in pendingDecodes : DecodeError(r)
    \/ \E f \in pendingFrames : FrameCallback(f)
    \/ StartMicClick
    \/ startMicrophoneResolved
    \/ startMicrophoneRejected
    \/ StopMicClick
    \/ ToggleDelayClick
    \/ PlayAudioClick
    \/ \E s \in playing : PlaybackEnded(s)
    \/ WindowResize
    \/ AppRunServes
    \/ AppRunBindFails
    \/ Navigate
    \/ open_browserFails
    \/ open_browser
    \/ index

Spec == Init /\ [][Next]_vars

\* The server process alone: startup, the browser timer and requests.
NextServer ==
    \/ AppRunServes
    \/ AppRunBindFails
    \/ Navigate
    \/ open_browserFails
    \/ open_browser
    \/ index

SpecServer == Init /\ [][NextServer]_vars

\* The microphone session alone: the capture, its graph, the visualization
\* loop and the window, with no file dropped.
NextMic ==
    \/ \E f \in pendingFrames : FrameCallback(f)
    \/ StartMicClick
    \/ startMicrophoneResolved
    \/ startMicrophoneRejected
    \/ StopMicClick
    \/ ToggleDelayClick
    \/ WindowResize

SpecMic == Init /\ [][NextMic]_vars

\* File intake and playback alone, with the microphone never started.
NextDrop ==
    \/ DragOver
    \/ DragLeave
    \/ \E files \in FileLists : Drop(files)
    \/ \E r \in pendingReads : ReaderOnload(r)
    \/ \E r \in pendingDecodes : DecodeSuccess(r)
    \/ \E r \in pendingDecodes : DecodeError(r)
    \/ PlayAudioClick
    \/ \E s \in playing : PlaybackEnded(s)

SpecDrop == Init /\ [][NextDrop]_vars

\* The handlers of the microphone session invoked whatever the state of
\* their controls (a call of the function itself, as from the console or
\* a test), with the frame callbacks the starts schedule.
StartMicCall == startCalls < MaxStarts /\ startMicrophone

NextMicCalls ==
    \/ \E f \in pendingFrames : FrameCallback(f)
    \/ StartMicCall
    \/ startMicrophoneResolved
    \/ startMicrophoneRejected
    \/ stopMicrophone
    \/ toggleDelay

SpecMicCalls == Init /\ [][NextMicCalls]_vars

\* File intake with playDroppedAudio invoked whatever the state of the
\* play control.
NextDropCalls ==
    \/ \E files \in FileLists : Drop(files)
    \/ \E r \in pendingReads : ReaderOnload(r)
    \/ \E r \in pendingDecodes : DecodeSuccess(r)
    \/ \E r \in pendingDecodes : DecodeError(r)
    \/ playDroppedAudio
    \/ \E s \in playing : PlaybackEnded(s)

SpecDropCalls == Init /\ [][NextDropCalls]_vars

\* One page session through its controls: microphone starts and stops,
\* delay toggles, drops with their reads and decodes, and plays.
SessionStartClick == startCalls < MaxSessionStarts /\ StartMicClick

SessionDrop(files) == Len(dropLog) < MaxSessionDrops /\ Drop(files)

NextSession ==
    \/ SessionStartClick
    \/ startMicrophoneResolved
    \/ startMicrophoneRejected
    \/ StopMicClick
    \/ ToggleDelayClick
    \/ \E files \in FileLists : SessionDrop(files)
    \/ \E r \in pendingReads : ReaderOnload(r)
    \/ \E r \in pendingDecodes : DecodeSuccess(r)
    \/ \E r \in pendingDecodes : DecodeError(r)
    \/ PlayAudioClick

SpecSession == Init /\ [][NextSession]_vars

\* ================================================================ claims
\* The microphone is currently started: the capture stream the script
\* holds has tracks that were not stopped.
MicStarted == micStream # Undefined /\ micStream \in liveStreams

\* The visualization loop is active: a drawWaveform callback is pending.
LoopActive == pendingFrames # {}

\* Capture sources of live streams wired straight to the destination.
DirectPaths ==
    {s \in liveStreams : <<Source(s), Destination>> \in connections}

\* Capture sources of live streams wired to the destination via a delay.
DelayedPaths ==
    {p \in liveStreams \X (1..streamsCreated) :
        /\ <<Source(p[1]), Delay(p[2])>> \in connections
        /\ <<Delay(p[2]), Destination>> \in connections}

\* C1: the visualization loop is active if and only if the microphone is
\* currently started: a frame callback is pending exactly while a started
\* capture exists, and none after Stop microphone until the next
\* successful start.
C1_LoopActiveIffStarted == LoopActive <=> MicStarted

\* C2: at most one capture stream is live at any time, and while the
\* microphone is stopped (stop control disabled) no acquired capture
\* stream is still live.
C2_CaptureReleasedOnStop ==
    /\ Cardinality(liveStreams) <= 1
    /\ stopMicBtnDisabled => liveStreams = {}

\* C3: while the microphone is active there is exactly one kind of routing
\* path between capture and destination: direct or through the delay,
\* never both and never neither.
C3_ExactlyOneRoute ==
    MicStarted => ((DirectPaths # {}) # (DelayedPaths # {}))

\* C4: while the microphone is active the capture source is connected to
\* the analyser node, toggles of the delay included.
C4_CaptureFeedsAnalyser ==
    MicStarted => <<Source(micSource), Analyser(analyserNode)>> \in connections

\* C5: while the microphone is started the stop and toggle-delay controls
\* are enabled and the start control is disabled; otherwise the controls
\* are in the pre-start state (start enabled, stop and toggle disabled).
C5_ControlsFollowStart ==
    IF MicStarted
    THEN startMicBtnDisabled /\ ~stopMicBtnDisabled /\ ~toggleDelayBtnDisabled
    ELSE ~startMicBtnDisabled /\ stopMicBtnDisabled /\ toggleDelayBtnDisabled

\* A permission request settles without a stream: the start has failed.
StartFails ==
    /\ pendingStarts' = pendingStarts - 1
    /\ streamsCreated' = streamsCreated

\* C6: a start that fails to obtain the microphone sets the access-error
\* status, leaves every control as it was and creates no capture stream,
\* capture source or visualization loop; as long as no start has succeeded
\* the stop and toggle-delay controls stay disabled.
C6_FailedStartKeepsControls ==
    /\ [](streamsCreated = 0 =>
            /\ stopMicBtnDisabled /\ toggleDelayBtnDisabled
            /\ micStream = Undefined /\ micSource = Undefined
            /\ pendingFrames = {})
    /\ [][StartFails =>
            /\ statusMessage' = MsgMicError
            /\ UNCHANGED btnVars
            /\ UNCHANGED <<micStream, micSource, liveStreams, connections,
                           pendingFrames, animationId>>]_vars

\* A start has failed from the initial state and another is still pending.
C6_Witness ==
    /\ statusMessage = MsgMicError
    /\ streamsCreated = 0
    /\ stopMicBtnDisabled /\ toggleDelayBtnDisabled
    /\ pendingStarts > 0

\* C7: at most one playback instance of the dropped buffer is started and
\* not yet stopped at any time.
C7_AtMostOnePlaying == Cardinality(playing) <= 1

\* A second instance plays, created while the script still held the first.
C7_Witness == droppedAudioSource = 2 /\ playing = {2}

\* C8: once every read/decode has completed after a valid audio file and
\* then a second valid audio file were dropped, the decoded buffer holds
\* the content of the file dropped last.
C8_LastDropWins ==
    (/\ pendingReads = {} /\ pendingDecodes = {}
     /\ Len(dropLog) >= 2
     /\ dropLog[Len(dropLog)].decodable
     /\ dropLog[Len(dropLog) - 1].decodable)
    => droppedAudioBuffer = dropLog[Len(dropLog)].content

\* A MIME type is an audio type when its top-level type, the text before
\* the first "/", is "audio".
MimeIsAudio(type) ==
    \E i \in 1..Len(type) :
        /\ type[i] = "/"
        /\ \A j \in 1..(i - 1) : type[j] # "/"
        /\ SubSeq(type, 1, i - 1) = <<"a", "u", "d", "i", "o">>

\* The first file of the drop is not of an audio type.
NonAudioDrop(files) ==
    /\ Len(files) > 0
    /\ ~MimeIsAudio(files[1].type)
    /\ Drop(files)

\* C9 as stated: dropping a file whose MIME type is not audio changes no
\* state other than the status text.
C9_OnlyStatusChanges ==
    [][\A files \in FileLists :
          NonAudioDrop(files) =>
              UNCHANGED <<micVars, btnVars, ctxVars, dropVars, playVars,
                          viewVars>>]_vars

\* C9 as amended: dropping a file whose MIME type is not audio sets the
\* invalid-drop status, clears the drop zone's dragover highlight and
\* changes nothing else: the play control, the decoded buffer, the audio
\* context and the reads/decodes in flight are as before.
C9_OnlyStatusAndHighlightChange ==
    [][\A files \in FileLists :
          NonAudioDrop(files) =>
              /\ statusMessage' = MsgInvalidDrop
              /\ UNCHANGED <<micVars, btnVars, ctxVars, dropVars, playVars>>
              /\ UNCHANGED <<canvasSize, clientSize>>]_vars

\* A non-audio file was dropped after a buffer was loaded: the buffer and
\* the enabled play control are still there.
C9_Witness ==
    /\ statusMessage = MsgInvalidDrop
    /\ droppedAudioBuffer # Null
    /\ ~playAudioBtnDisabled

\* The decode in flight for r ends, and r's bytes are not valid audio.
DecodeFails(r) ==
    /\ ~r.file.decodable
    /\ pendingDecodes' = pendingDecodes \ {r}

\* C10: when decoding of a dropped audio-typed file fails the status text
\* reports the decode error, and the decoded buffer and the play control's
\* enabled state are left as they were.
C10_DecodeFailureKeepsBuffer ==
    [][\A r \in pendingDecodes :
          DecodeFails(r) =>
              /\ statusMessage' = MsgDecodeError
              /\ UNCHANGED <<droppedAudioBuffer, playAudioBtnDisabled>>]_vars

\* A decode failed while a buffer loaded before is still resident.
C10_Witness ==
    /\ statusMessage = MsgDecodeError
    /\ droppedAudioBuffer # Null
    /\ ~playAudioBtnDisabled

\* C11: the play control is enabled only if a dropped file has been
\* decoded (the decoded buffer is not empty), and playDroppedAudio invoked
\* while no buffer has been decoded creates no playback instance and
\* changes no state.
C11_PlayNeedsDecodedBuffer ==
    /\ [](~playAudioBtnDisabled => droppedAudioBuffer # Null)
    /\ [](droppedAudioBuffer = Null =>
            /\ playing = {}
            /\ droppedAudioSource = Undefined
            /\ statusMessage # MsgPlaying)
    /\ [][(droppedAudioBuffer = Null /\ playDroppedAudio) =>
            UNCHANGED vars]_vars

\* No buffer has been decoded, the play control is disabled, a decode has
\* failed and another is still in flight: playDroppedAudio is callable
\* here and finds no buffer.
C11_Witness ==
    /\ droppedAudioBuffer = Null
    /\ playAudioBtnDisabled
    /\ statusMessage = MsgDecodeError
    /\ pendingDecodes # {}

\* C12: toggleDelay invoked while the microphone is not active (never
\* started, or started and then stopped) changes only the routing mode
\* flag: no node is disconnected or connected and nothing else changes.
C12_ToggleWhileInactiveOnlyFlips ==
    [][(~MicStarted /\ toggleDelay) =>
          /\ isDelayEnabled' = ~isDelayEnabled
          /\ UNCHANGED <<micStream, micSource, delayNode, analyserNode,
                         animationId, startCalls, pendingStarts,
                         streamsCreated, liveStreams, connections,
                         pendingFrames, fullscreen>>
          /\ UNCHANGED <<btnVars, ctxVars, dropVars, playVars, viewVars,
                         statusMessage>>]_vars

\* C13: stopMicrophone invoked when the microphone was never started
\* leaves capture, graph and control state as they were, and invoked
\* right after a stopMicrophone it changes nothing at all.
C13_StopIdempotent ==
    /\ [][(streamsCreated = 0 /\ stopMicrophone) =>
            UNCHANGED <<micVars, btnVars, ctxVars, dropVars, playVars,
                        viewVars>>]_vars
    /\ [][stopMicrophone => ~(ENABLED <<stopMicrophone>>_vars)']_vars

\* stopMicrophone was invoked with no start ever made.
C13_Witness ==
    /\ statusMessage = MsgMicStopped
    /\ startCalls = 0
    /\ isDelayEnabled

\* C14: a window resize sets the canvas pixel dimensions to its on-screen
\* size and changes nothing else: the pending frame callback, the capture
\* stream, the audio graph, the routing mode and the decoded buffer are as
\* before.
C14_ResizeOnlyResizes ==
    [][clientSize' # clientSize =>
          /\ canvasSize' = clientSize'
          /\ UNCHANGED <<micVars, btnVars, ctxVars, dropVars, playVars,
                         dragover, statusMessage>>]_vars

\* The canvas has been resized and the visualization loop is running.
C14_Witness ==
    /\ canvasSize = 2
    /\ MicStarted
    /\ LoopActive

\* The current capture source reaches the destination through the current
\* delay node.
RoutedThroughDelay ==
    /\ <<Source(micSource), Delay(delayNode)>> \in connections
    /\ <<Delay(delayNode), Destination>> \in connections

\* The current capture source is connected straight to the destination.
RoutedDirectly == <<Source(micSource), Destination>> \in connections

\* C16: whenever the microphone is active, the current capture source is
\* routed through the delay node if and only if isDelayEnabled is true
\* (and straight to the destination if and only if it is false), whenever
\* the flag was flipped.
C16_RouteFollowsFlag ==
    MicStarted =>
        /\ RoutedThroughDelay <=> isDelayEnabled
        /\ RoutedDirectly <=> ~isDelayEnabled

\* A start has just resolved with the flag already flipped to true.
C16_Witness ==
    /\ MicStarted
    /\ isDelayEnabled
    /\ statusMessage = MsgMicStarted

\* C17: a toggle of the delay while the microphone is active leaves the
\* capture stream live, the visualization loop scheduled, and the decoded
\* buffer, the playback instances and every control's enabled state
\* unchanged.
C17_ToggleKeepsCapture ==
    [][(MicStarted /\ isDelayEnabled' # isDelayEnabled) =>
          /\ UNCHANGED <<micStream, liveStreams, pendingFrames, animationId>>
          /\ UNCHANGED <<btnVars, dropVars, playVars>>]_vars

\* The delay was toggled with the microphone active, the loop scheduled,
\* a buffer decoded and an instance of it playing.
C17_Witness ==
    /\ statusMessage \in {MsgDelayOn, MsgDelayOff}
    /\ MicStarted
    /\ LoopActive
    /\ droppedAudioBuffer # Null
    /\ playing # {}

\* C18: a decoded buffer (and so any playback instance) implies that the
\* audio context exists, and the audio context, once created, is never
\* replaced by a second instance.
C18_OneAudioContext ==
    /\ [](droppedAudioBuffer # Null => audioContext # Undefined)
    /\ [](playing # {} => audioContext # Undefined)
    /\ [](contextsCreated <= 1)
    /\ [][audioContext # Undefined => audioContext' = audioContext]_vars

\* A drop was decoded and played and a microphone start resolved, all on
\* the one audio context.
C18_Witness ==
    /\ droppedAudioBuffer # Null
    /\ playing # {}
    /\ streamsCreated >= 1
    /\ audioContext = 1

\* C15: the browser-open timer runs whatever the server's state, a failure
\* of the open step never changes the server's state, a serving server
\* keeps serving, and every GET / it answers gets the document.
C15_BrowserOpenBestEffort ==
    /\ [](browserTimer = "scheduled" => ENABLED <<open_browserFails>>_vars)
    /\ []((serverState = "serving" /\ pendingGets > 0) =>
            ENABLED <<index>>_vars)
    /\ [][browserTimer' # browserTimer =>
            serverState' = serverState]_vars
    /\ [][serverState = "serving" => serverState' = "serving"]_vars
    /\ [][pendingGets' < pendingGets => lastResponse' = Document]_vars

\* The browser could not be opened, and a navigation made by hand was
\* answered with the document.
C15_Witness ==
    /\ browserTimer = "failed"
    /\ serverState = "serving"
    /\ lastResponse = Document

====
